---- MODULE Spec2Model ----
(***************************************************************************)
(* A model of the Michigan Geological Survey cross-section scripts.        *)
(*                                                                         *)
(* Spec      the all-steps script (MGS_XSec_AllSteps.py): one action per   *)
(*           try block, in the order the script runs them.                 *)
(* SpecPath  the path-construction block of a stage, run on one section    *)
(*           whose rows carry any DIRECTION values, with its cleanup and   *)
(*           with the tool being started again.                            *)
(* SpecBH    the borehole projector: locateEvents_Table and boreholes.     *)
(*                                                                         *)
(* Elevations are integers; a schematic Y value is kept in ten-thousandths *)
(* of a metre, so that the factor 0.3048 is the integer 3048.              *)
(***************************************************************************)
EXTENDS Integers, Sequences, FiniteSets, TLC

\* ------------------------------------------------------------------ bounds
NumLines == 2   \* distinct XSEC values of the line layer (allValue)
MaxRows  == 2   \* rows of the line layer that share one XSEC value
MaxGwl   == 1   \* rows of the groundwater value table
MaxGrids == 2   \* rows of the grid value table
MaxRuns  == 2   \* times the tool is started on the same project
MaxPts   == 2   \* boreholes selected near one path
MaxVe    == 2   \* vertical exaggeration

VARIABLES
    \* ---- inputs of a run (GetParameterAsText) and the line layer
    lineRows,    \* XSEC value -> the DIRECTION of each of its rows
    hasZ, hasM,  \* Describe(lineLayer): the layer's geometry has Z / M
    ext3D, extLR,\* CheckExtension("3D") / ("LocationReferencing") is Available
    bdrkDEM,     \* a bedrock surface is configured
    gwlDEM,      \* number of rows of the groundwater value table
    gwlYears,    \* row of the groundwater value table -> its years, as named
    scrnTable,   \* a screens table is configured
    custom,      \* custom == "true"
    grids,       \* number of rows of the grid value table
    \* ---- state on disk
    lineFields,  \* fields the scripts have added to the line layer
    scratch,     \* intermediate datasets that exist
    outputs,     \* final feature classes in the output geodatabase
    fds,         \* feature datasets XSEC_<Value> of the output geodatabase
    \* ---- state of the interpreter
    pc,          \* the try block that runs next
    Value,       \* loop variable of "for Value in allValue"
    gwlRow,      \* loop variable of "for i in range(0, gwlDEM.rowCount)"
    zm_line,     \* the Path of the current stage
    bound,       \* names bound in the module namespace
    errors,      \* what was reported: <<code, Value, exception>>
    started,     \* <<stage, Value>> whose loop body has been entered
    gridRead,    \* outputs whose extent the grid stage has read
    runs,        \* times the tool was started
    hist,        \* results of the path builder, in order
    \* ---- the borehole projector on its own
    elevUnits, ve, pts, eventLocTable, bhSticks, skipped, bhpc,
    \* ---- the interval segmenter on its own
    script,      \* the script that runs: "AllSteps" or "Boreholes"
    tableView,   \* the lithology table is a table view of the map
    bhWells,     \* Value -> the WELLIDs of bhLines
    lithRows,    \* rows of newLithTable
    scrnRows,    \* rows of the screens table
    lithSel,     \* rows of newLithTable that are selected
    cand,        \* <<Value, category>> -> rows given to MakeRouteEventLayer
    intervals,   \* rows of the final LITH and SCRNS feature classes
    segLine,     \* loop variable Value of the segmenter
    segpc,       \* the try block that runs next
    \* ---- the confidence zone of a surface along one path
    extentCells, \* cells of the path inside featExtent, the surface's footprint
    buffCells,   \* cells of the path inside the buffer of the boreholes
    zoneRows,    \* rows of the confidence zone feature class
    spans,       \* rows of the segmented profile
    confpc,      \* the try block that runs next
    confScript,  \* the script that runs: "AllSteps" or "SegmentProfile"
    surface,     \* "BDRK" for the bedrock surface, "GWL" for a groundwater surface
    bhCells,     \* cells of the path with a borehole of newBhPoints
    matching,    \* cells of the boreholes that satisfy the where clause
    filtered,    \* FALSE for the groundwater surface of all years
    bhSel,       \* cells of the boreholes selected when the surface starts
    moveLength,  \* length by which the profile is moved along the path
    handed,      \* rows of the event table given to placeEvents, in order
    \* ---- the frame of a cross-section for one grid configuration;
    \* ---- lengths are whole numbers of 0.0008 m
    Ymin,        \* lowest Y of the profiles, exaggerated
    Ymax,        \* highest Y of the profiles, exaggerated
    Xmax,        \* length of the profile
    gridVe,      \* vertical exaggeration of the profiles
    xInt,        \* distance interval of the configuration
    xUnits,      \* its unit
    yInt,        \* elevation interval of the configuration
    yUnits,      \* its unit
    newYmin,     \* bottom of the frame
    newYmax,     \* top of the frame
    distList,    \* the distance ticks, in xUnits
    gridpc,      \* "frame" before the configuration is drawn
    xDen,        \* the distance interval is xInt / xDen of a unit
    botY,        \* Ymin rounded to the elevation interval
    frameRows,   \* rows inserted by outRows: tick lines and the frame
    labelRows    \* rows inserted by labelRows: label points

vars == <<lineRows, hasZ, hasM, ext3D, extLR, bdrkDEM, gwlDEM, gwlYears, scrnTable,
          custom, grids, lineFields, scratch, outputs, fds, pc, Value, gwlRow, zm_line,
          bound, errors, started, gridRead, runs, hist,
          elevUnits, ve, pts, eventLocTable, bhSticks, skipped, bhpc,
          script, tableView, bhWells, lithRows, scrnRows, lithSel, cand, intervals,
          segLine, segpc, extentCells, buffCells, zoneRows, spans, confpc,
          confScript, surface, bhCells, matching, filtered, bhSel, moveLength, handed,
          Ymin, Ymax, Xmax, gridVe, xInt, xUnits, yInt, yUnits, newYmin, newYmax,
          distList, gridpc, xDen, botY, frameRows, labelRows>>

cfgVars  == <<lineRows, hasZ, hasM, ext3D, extLR, bdrkDEM, gwlDEM, gwlYears,
              scrnTable, custom, grids>>
runVars  == <<lineFields, scratch, outputs, fds, pc, Value, gwlRow, zm_line, bound,
              errors, started, gridRead, runs, hist>>
bhVars   == <<elevUnits, ve, pts, eventLocTable, bhSticks, skipped, bhpc>>
segVars  == <<script, tableView, bhWells, lithRows, scrnRows, lithSel, cand, intervals,
              segLine, segpc>>

\* the variables of the parts that are modelled on their own
confVars == <<extentCells, buffCells, zoneRows, spans, confpc, confScript, surface,
              bhCells, matching, filtered, bhSel, moveLength, handed>>
gridVars == <<Ymin, Ymax, Xmax, gridVe, xInt, xUnits, yInt, yUnits, newYmin, newYmax,
               distList, gridpc, xDen, botY, frameRows, labelRows>>
auxVars  == <<segVars, confVars, gridVars>>

\* the interval segmenter is not part of the specification
SegIdle ==
    /\ script = "AllSteps" /\ tableView = FALSE /\ bhWells = <<>>
    /\ lithRows = {} /\ scrnRows = {} /\ lithSel = {} /\ cand = <<>>
    /\ intervals = {} /\ segLine = 1 /\ segpc = "idle"

\* the confidence zone is not part of the specification
ConfIdle ==
    /\ extentCells = {} /\ buffCells = {} /\ zoneRows = {} /\ spans = {}
    /\ confpc = "idle" /\ confScript = "AllSteps" /\ surface = "BDRK"
    /\ bhCells = {} /\ matching = {} /\ filtered = FALSE /\ bhSel = {}
    /\ moveLength = 0 /\ handed = <<>>

\* the frame is not part of the specification
GridIdle ==
    /\ Ymin = 0 /\ Ymax = 0 /\ Xmax = 0 /\ gridVe = 1
    /\ xInt = 1 /\ xUnits = "Meters" /\ yInt = 1 /\ yUnits = "Meters"
    /\ newYmin = 0 /\ newYmax = 0 /\ distList = <<>> /\ gridpc = "idle"
    /\ xDen = 1 /\ botY = 0 /\ frameRows = <<>> /\ labelRows = <<>>

AuxIdle == SegIdle /\ ConfIdle /\ GridIdle

\* ------------------------------------------------------------- directions
Null == "NULL"

DirCodes == {"W-E", "NW-SE", "E-W", "SW-NE", "S-N", "N-S", "NE-SW", "SE-NW"}

\* a DIRECTION value that is none of the eight codes
BadDir == "X-X"

AllDirs == DirCodes \cup {BadDir}

\* the directions the all-steps model draws from: one whose origin is a left
\* corner, one whose origin is a right corner, one unrecognized
PipeDirs == {"W-E", "NE-SW", BadDir}

Range(s) == {s[j] : j \in DOMAIN s}

SeqsUpTo(S, n) == UNION {[1..k -> S] : k \in 1..n}

\* the four "if" statements of the update cursor, in order; q is row[1]
QuadNW(d, q) == IF d = "W-E" \/ d = "NW-SE" \/ d = "E-W" THEN "Northwest" ELSE q

QuadSW(d, q) == IF d = "SW-NE" \/ d = "S-N" \/ d = "N-S" THEN "Southwest" ELSE q

QuadNE(d, q) == IF d = "NE-SW" THEN "Northeast" ELSE q

QuadSE(d, q) == IF d = "SE-NW" THEN "Southeast" ELSE q

\* a faulty variant: E-W is tested with NE-SW instead of with W-E
ClassifySlip(d) ==
    QuadSE(d, IF d = "NE-SW" \/ d = "E-W" THEN "Northeast"
              ELSE QuadSW(d, IF d = "W-E" \/ d = "NW-SE" THEN "Northwest" ELSE Null))

\* a faulty variant: a row no test matches keeps the quadrant of the first test
ClassifyGuess(d) ==
    LET q == QuadSE(d, QuadNE(d, QuadSW(d, QuadNW(d, Null))))
    IN  IF q = Null THEN "Northwest" ELSE q

\* QUAD of a row of DIRECTION d; the field is NULL when it is added
Classify(d) == QuadSE(d, QuadNE(d, QuadSW(d, QuadNW(d, Null))))

cpDict == [Northwest |-> "UPPER_LEFT", Southwest |-> "LOWER_LEFT",
           Northeast |-> "UPPER_RIGHT", Southeast |-> "LOWER_RIGHT"]

\* cpDict[quadrant]; a key the dictionary lacks raises KeyError
getCPValue(quadrant) ==
    IF quadrant \in DOMAIN cpDict THEN cpDict[quadrant] ELSE "KeyError"

\* the order of the text values of QUAD; NULL sorts below every text
QuadRank(q) ==
    CASE q = "Southwest" -> 4
      [] q = "Southeast" -> 3
      [] q = "Northwest" -> 2
      [] q = "Northeast" -> 1
      [] OTHER -> 0

\* SearchCursor(z_line, sort "QUAD D").next().getValue("QUAD")
FirstQuadDescending(quads) ==
    CHOOSE q \in Range(quads) : \A r \in Range(quads) : QuadRank(r) <= QuadRank(q)

\* a faulty variant: the line is always draped
FastPathNever(z, m) == FALSE

\* "if hasZ and hasM"
FastPath(z, m) == z /\ m

\* The path-construction block of a stage on the selected rows of section v.
\*   zm      the Path: the line layer itself, or the route XSEC_<v>_zm
\*   made    the scratch datasets it has created when it ends
\*   exc     the exception it ends with, or "none"
PathBuilder(rows, z, m, v) ==
    IF FastPath(z, m)
    THEN [zm |-> "lineLayers", made |-> <<>>, quads |-> <<>>, cp |-> "none",
          exc |-> "none", draped |-> FALSE, routed |-> FALSE, binds |-> {}]
    ELSE LET quads == [j \in DOMAIN rows |-> Classify(rows[j])]
             cpDir == FirstQuadDescending(quads)
             cp    == getCPValue(cpDir)
         IN  IF cp = "KeyError"
             THEN [zm |-> "none", made |-> << <<"XSEC_z", v>> >>, quads |-> quads,
                   cp |-> "none", exc |-> "KeyError", draped |-> TRUE,
                   routed |-> FALSE, binds |-> {"z_line", "cpDir"}]
             ELSE [zm |-> "XSEC_zm", made |-> << <<"XSEC_z", v>>, <<"XSEC_zm", v>> >>,
                   quads |-> quads, cp |-> cp, exc |-> "none", draped |-> TRUE,
                   routed |-> TRUE, binds |-> {"z_line", "cpDir"}]

\* checkField of section v: "<lineLayer>_<Value>_ID"
checkField(v) == <<"ID", v>>

\* "if idField is None or idExists == False": AddField ROUTEID, and
\* CalculateField, which adds the field it is given when the table lacks it
AddRouteId(fields, v) ==
    IF checkField(v) \in fields THEN fields
    ELSE fields \cup {<<"ROUTEID", 0>>, checkField(v)}

\* ------------------------------------------------- datasets and effects
\* An effect of a step, in the order the step produces them: a scratch
\* dataset or a final feature class, named <<name, Value, groundwater row>>.
S(n, v, g) == [kind |-> "scratch", d |-> <<n, v, g>>]

O(n, v, g) == [kind |-> "out", d |-> <<n, v, g>>]

ScratchOf(items, k) == {items[j].d : j \in {x \in 1..k : items[x].kind = "scratch"}}

OutOf(items, k) == {items[j].d : j \in {x \in 1..k : items[x].kind = "out"}}

\* the first k effects of a step have happened
Apply(items, k) ==
    /\ scratch' = scratch \cup ScratchOf(items, k)
    /\ outputs' = outputs \cup OutOf(items, k)

\* the scratch datasets of the path builder as effects
PathItems(pb) == [j \in DOMAIN pb.made |-> S(pb.made[j][1], pb.made[j][2], 0)]

\* a faulty variant: the handler reports the error and goes on with the next line
RaiseAndContinue(code, v, exc) ==
    /\ errors' = Append(errors, <<code, v, exc>>)
    /\ pc' = IF Value < NumLines THEN "bh_path" ELSE "done"
    /\ Value' = IF Value < NumLines THEN Value + 1 ELSE Value
    /\ UNCHANGED gwlRow

\* "except: AddMsgAndPrint("ERROR ..."); raise SystemError" at module level:
\* the message is reported and the interpreter ends the script
Raise(code, v, exc) ==
    /\ errors' = Append(errors, <<code, v, exc>>)
    /\ pc' = "aborted"
    /\ UNCHANGED <<Value, gwlRow>>

Goto(next, v, g) ==
    /\ pc' = next
    /\ Value' = v
    /\ gwlRow' = g
    /\ UNCHANGED errors

\* arcpy.management.Delete of a list: every item has to exist
CanDelete(list) == list \subseteq scratch


\* ------------------------------------------------------ the all-steps script
StageOf(code) ==
    CASE code \in {"002", "003", "004", "005", "006"} -> "bh"
      [] code \in {"007", "008"} -> "topo"
      [] code \in {"009", "010", "011", "012"} -> "bdrk"
      [] code \in {"013", "014", "015", "016"} -> "gwl"
      [] code \in {"017", "018"} -> "grid"
      [] OTHER -> "setup"

\* what the other variables of the run do in a step that leaves them alone
KeepRun == UNCHANGED <<cfgVars, runs, hist, bhVars, auxVars>>

\* checkExtensions(): raise "LicenseError" raises TypeError, which the
\* "except "LicenseError"" clause cannot catch
checkExtensions ==
    /\ pc = "checkExtensions"
    /\ IF ext3D /\ extLR
       THEN Goto("format", Value, gwlRow)
       ELSE Raise("none", 0, "TypeError")
    /\ UNCHANGED <<lineFields, scratch, outputs, fds, zm_line, bound, started, gridRead>>
    /\ KeepRun

\* the working copies of the custom borehole, lithology and screen tables
CustomItems ==
    << S("BH_MGS", 0, 0), S("LITH_MGS", 0, 0) >>
       \o (IF scrnTable THEN << S("SCRN_MGS", 0, 0) >> ELSE <<>>)

\* ERROR 001: "if custom == "true"": copy and rename the user's tables
FormatDatasets ==
    /\ pc = "format"
    /\ LET items == IF custom THEN CustomItems ELSE <<>>
       IN  \/ Apply(items, Len(items)) /\ Goto("fds", Value, gwlRow)
           \/ \E k \in 0..(Len(items) - 1) :
                 Apply(items, k) /\ Raise("001", 0, "ExecuteError")
    /\ UNCHANGED <<lineFields, fds, zm_line, bound, started, gridRead>>
    /\ KeepRun

\* ERROR 001: one feature dataset XSEC_<Value> for every Value
CreateFDS ==
    /\ pc = "fds"
    /\ \/ fds' = 1..NumLines /\ Goto("bh_path", 1, gwlRow)
       \/ \E k \in 1..NumLines :
             fds' = 1..(k - 1) /\ Raise("001", k, "ExecuteError")
    /\ UNCHANGED <<lineFields, scratch, outputs, zm_line, bound, started, gridRead>>
    /\ KeepRun

\* no failure of the step's own making
NoFail == [at |-> 0 - 1, exc |-> "none"]

\* the step raises exc by itself once k of its effects have happened
FailAfter(k, exc) == [at |-> k, exc |-> exc]

\* the numbers of effects a try block can end after: all of them, or fewer
\* when a geoprocessing call fails (ExecuteError) or the step fails by itself
Outcomes(items, fail) == 0..(IF fail.at < 0 THEN Len(items) ELSE fail.at)

\* a try block that produces datasets ends after k of its effects
MakeStepK(items, fail, code, next, nextValue, nextRow, k) ==
    /\ Apply(items, k)
    /\ IF fail.at < 0 /\ k = Len(items) THEN Goto(next, nextValue, nextRow)
       ELSE Raise(code, Value, IF k = fail.at THEN fail.exc ELSE "ExecuteError")

MakeStep(items, fail, code, next, nextValue, nextRow) ==
    \E k \in Outcomes(items, fail) :
        MakeStepK(items, fail, code, next, nextValue, nextRow, k)

\* The outputs of line v the grid stage describes for Xmax, Ymin and Ymax:
\* the sticks, the topographic profile and, "if arcpy.Exists", the bedrock
\* profile; Describe raises on a dataset that does not exist.
GridReadsSticks(v) == {<<"LITH", v, 0>>} \cap outputs

GridReads(v) ==
    IF <<"LITH", v, 0>> \notin outputs THEN {}
    ELSE IF <<"TOPO", v, 0>> \notin outputs THEN {<<"LITH", v, 0>>}
    ELSE {<<"LITH", v, 0>>, <<"TOPO", v, 0>>} \cup ({<<"BDRK", v, 0>>} \cap outputs)

\* the effects of a try block that opens with the path-construction block
PathStepItems(pb, more) == PathItems(pb) \o (IF pb.exc = "none" THEN more ELSE <<>>)

\* fail is counted in the effects of more
PathStepFail(pb, more, fail) ==
    IF pb.exc # "none" THEN FailAfter(Len(pb.made), pb.exc)
    ELSE IF fail.at < 0 THEN NoFail
    ELSE FailAfter(Len(pb.made) + fail.at, fail.exc)

\* The try block that opens a stage's loop body ends after k effects: the
\* routing field is added, the path is built, the rest of the block (more)
\* runs.
PathStepK(stage, code, more, fail, binds, next, k) ==
    LET pb == PathBuilder(lineRows[Value], hasZ, hasM, Value)
    IN  /\ lineFields' = AddRouteId(lineFields, Value)
        /\ started' = started \cup {<<stage, Value, gwlRow>>}
        /\ gridRead' = gridRead \cup (IF stage = "grid" /\ pb.exc = "none"
                                          /\ k >= Len(pb.made)
                                       THEN GridReads(Value) ELSE {})
        /\ fds' = fds
        /\ MakeStepK(PathStepItems(pb, more), PathStepFail(pb, more, fail), code, next,
                     Value, gwlRow, k)
        /\ zm_line' = IF pb.exc = "none" /\ k >= Len(pb.made) THEN pb.zm ELSE zm_line
        /\ bound' = bound
                    \cup (IF pb.draped THEN {"z_line"} ELSE {})
                    \cup (IF k >= 1 THEN pb.binds ELSE {})
                    \cup (IF pc' # "aborted" THEN binds ELSE {})

PathStep(stage, code, more, fail, binds, next) ==
    \E k \in Outcomes(PathStepItems(PathBuilder(lineRows[Value], hasZ, hasM, Value), more),
                      PathStepFail(PathBuilder(lineRows[Value], hasZ, hasM, Value),
                                   more, fail)) :
        PathStepK(stage, code, more, fail, binds, next, k)

\* the Path as an item of a Delete list: the route, or the layer itself
ZmItem == IF zm_line = "XSEC_zm" THEN {<<"XSEC_zm", Value, 0>>} ELSE {}

\* The cleanup try block of a stage.
\*   names      the variables its Delete lists read
\*   list       the datasets of the first Delete
\*   list2      the datasets of the second Delete ({} when there is none)
\*   dropField  the block calls DeleteField(lineLayer, checkField)
CleanStep(names, list, list2, dropField, code, next, nextValue, nextRow) ==
    /\ IF ~(names \subseteq bound)
       THEN /\ Raise(code, Value, "NameError")
            /\ UNCHANGED <<scratch, lineFields>>
       ELSE IF ~CanDelete(list)
       THEN /\ Raise(code, Value, "ExecuteError")
            /\ UNCHANGED <<scratch, lineFields>>
       ELSE IF ~CanDelete(list2)
       THEN /\ Raise(code, Value, "ExecuteError")
            /\ scratch' = scratch \ list
            /\ UNCHANGED lineFields
       ELSE \/ /\ scratch' = scratch \ (list \cup list2)
               /\ lineFields' = IF dropField THEN lineFields \ {checkField(Value)}
                                ELSE lineFields
               /\ Goto(next, nextValue, nextRow)
            \/ /\ scratch' = scratch \ (list \cup list2)
               /\ lineFields' = lineFields
               /\ Raise(code, Value, "ExecuteError")
            \/ /\ UNCHANGED <<scratch, lineFields>>
               /\ Raise(code, Value, "ExecuteError")
    /\ UNCHANGED <<outputs, fds, zm_line, bound, started, gridRead>>

\* what a step that only produces datasets leaves alone
KeepPath == UNCHANGED <<lineFields, fds, zm_line, bound, started, gridRead>>

\* a loop over allValue goes on with the next Value, or the script with the
\* next stage
NextLine(loopStart, after) ==
    IF Value < NumLines THEN [pc |-> loopStart, v |-> Value + 1]
    ELSE [pc |-> after, v |-> Value]

\* ---- BEGIN BOREHOLE CREATION
\* ERROR 002: the elevation route polyline
BhPath ==
    /\ pc = "bh_path"
    /\ PathStep("bh", "002", <<>>, NoFail, {}, "bh_boreholes")
    /\ KeepRun

BoreholeItems(v) ==
    << S("XSEC_zBoreholes", v, 0), S("XSEC_bhEvents", v, 0),
       S("XSEC_Located", v, 0), S("XSEC_bhLines", v, 0) >>

\* ERROR 003: select, drape and locate the boreholes, build the sticks
BhBoreholes ==
    /\ pc = "bh_boreholes"
    /\ MakeStep(BoreholeItems(Value), NoFail, "003", "bh_lith", Value, gwlRow)
    /\ KeepPath
    /\ KeepRun

LithItems(v) ==
    << S("XSEC_bhRoutes_lith", v, 0), S("XSEC_intervalsLith", v, 0), O("LITH", v, 0) >>

\* ERROR 004: lithology sticks
BhLith ==
    /\ pc = "bh_lith"
    /\ MakeStep(LithItems(Value), NoFail, "004", "bh_scrn", Value, gwlRow)
    /\ KeepPath
    /\ KeepRun

ScrnItems(v) == << S("XSEC_intervalsScrns", v, 0), O("SCRNS", v, 0) >>

\* ERROR 005: screen sticks; "if scrnTable == """ skips the step
BhScrn ==
    /\ pc = "bh_scrn"
    /\ MakeStep(IF scrnTable THEN ScrnItems(Value) ELSE <<>>, NoFail, "005",
                "bh_clean", Value, gwlRow)
    /\ KeepPath
    /\ KeepRun

BhCleanList ==
    ZmItem \cup {<<"XSEC_intervalsLith", Value, 0>>, <<"XSEC_z", Value, 0>>,
                 <<"XSEC_Located", Value, 0>>, <<"XSEC_bhEvents", Value, 0>>,
                 <<"XSEC_zBoreholes", Value, 0>>, <<"XSEC_bhLines", Value, 0>>,
                 <<"XSEC_bhRoutes_lith", Value, 0>>}
           \cup (IF scrnTable THEN {<<"XSEC_intervalsScrns", Value, 0>>} ELSE {})

\* ERROR 006: Delete of the stage's datasets, DeleteField(lineLayer, checkField)
BhClean ==
    /\ pc = "bh_clean"
    /\ LET n == NextLine("bh_path", "topo_extent")
       IN  CleanStep({"z_line"}, BhCleanList, {}, TRUE, "006", n.pc, n.v, gwlRow)
    /\ KeepRun

\* A RasterDomain in front of a loop body's try block, outside every try:
\* testAndDelete(featExtent), then the footprint polygon is written.
ExtentStep(name, g, next, nextValue, nextRow) ==
    /\ \/ /\ scratch' = scratch \cup {<<name, 0, g>>}
          /\ Goto(next, nextValue, nextRow)
       \/ /\ scratch' = scratch \ {<<name, 0, g>>}
          /\ Raise("none", 0, "ExecuteError")
    /\ UNCHANGED <<lineFields, outputs, fds, zm_line, bound, started, gridRead>>

\* ---- BEGIN DEM TOPOGRAPHIC SURFACE CREATION
TopoExtent ==
    /\ pc = "topo_extent"
    /\ ExtentStep("ProjectAreaExtent_TOPO", 0, "topo_profile", 1, gwlRow)
    /\ KeepRun

\* ERROR 007: the path, then the profile feature class
TopoProfile ==
    /\ pc = "topo_profile"
    /\ PathStep("topo", "007", << O("TOPO", Value, 0) >>, NoFail, {}, "topo_clean")
    /\ KeepRun

\* ERROR 008: Delete([zm_line, z_line]), DeleteField(lineLayer, checkField)
TopoClean ==
    /\ pc = "topo_clean"
    /\ LET n == NextLine("topo_profile", "bdrk_extent")
       IN  CleanStep({"z_line"}, ZmItem \cup {<<"XSEC_z", Value, 0>>}, {}, TRUE,
                     "008", n.pc, n.v, gwlRow)
    /\ KeepRun

\* ---- BEGIN BEDROCK SURFACE CREATION
BdrkExtentD == <<"ProjectAreaExtent_BDRK", 0, 0>>

\* "if bdrkDEM == """ skips the stage
BdrkExtent ==
    /\ pc = "bdrk_extent"
    /\ IF bdrkDEM
       THEN ExtentStep("ProjectAreaExtent_BDRK", 0, "bdrk_path", 1, gwlRow)
       ELSE /\ Goto("gwl_extent", 1, 1)
            /\ UNCHANGED <<lineFields, scratch, outputs, fds, zm_line, bound, started, gridRead>>
    /\ KeepRun

\* The draping branch goes on after CreateRoutes: Erase of the line by the
\* surface's footprint, MultipartToSinglepart, moveLength.
EraseItems(prefix) ==
    IF FastPath(hasZ, hasM) THEN <<>>
    ELSE << S(prefix \o "_ERASE", 0, 0), S(prefix \o "_ERASE_SINGLE", 0, 0) >>

\* Erase reads featExtent
EraseFail(extent) ==
    IF ~FastPath(hasZ, hasM) /\ extent \notin scratch
    THEN FailAfter(0, "ExecuteError") ELSE NoFail

EraseBinds ==
    IF FastPath(hasZ, hasM) THEN {} ELSE {"eraseFeat", "singleFeat", "moveLength"}

\* ERROR 009
BdrkPath ==
    /\ pc = "bdrk_path"
    /\ PathStep("bdrk", "009", EraseItems("BDRK"), EraseFail(BdrkExtentD), EraseBinds,
                "bdrk_conf")
    /\ KeepRun

BdrkConfItems(v) ==
    << S("XSEC_BUFF_BDRK", v, 0), S("XSEC_UNION_BDRK", v, 0),
       S("XSEC_BDRK_ConZone", v, 0) >>

\* ERROR 010: Buffer, then Union([featExtent, bdrkBuff]), which reads featExtent
BdrkConf ==
    /\ pc = "bdrk_conf"
    /\ MakeStep(BdrkConfItems(Value),
                IF BdrkExtentD \in scratch THEN NoFail ELSE FailAfter(1, "ExecuteError"),
                "010", "bdrk_seg", Value, gwlRow)
    /\ KeepPath
    /\ KeepRun

SegItems(zone, out, v, g) ==
    << S(zone \o "_polyEvents", v, g), S("layer2", 0, 0), S(zone \o "_located", v, g),
       O(out, v, g) >>

\* plan2side reads the global moveLength
SegFail(items) ==
    IF "moveLength" \in bound THEN NoFail ELSE FailAfter(Len(items), "NameError")

\* ERROR 011: locate the zones, placeEvents, the profile, plan2side
BdrkSeg ==
    /\ pc = "bdrk_seg"
    /\ LET items == SegItems("BDRK_ConZone", "BDRK", Value, 0)
       IN  MakeStep(items, SegFail(items), "011", "bdrk_clean", Value, gwlRow)
    /\ KeepPath
    /\ KeepRun

BdrkCleanList ==
    ZmItem \cup {<<"XSEC_z", Value, 0>>, <<"XSEC_BUFF_BDRK", Value, 0>>,
                 <<"XSEC_UNION_BDRK", Value, 0>>, <<"XSEC_BDRK_ConZone", Value, 0>>,
                 <<"BDRK_ERASE", 0, 0>>, <<"BDRK_ERASE_SINGLE", 0, 0>>,
                 <<"BDRK_ConZone_polyEvents", Value, 0>>,
                 <<"BDRK_ConZone_located", Value, 0>>, BdrkExtentD}

\* ERROR 012: the Delete list ends with featExtent
BdrkClean ==
    /\ pc = "bdrk_clean"
    /\ LET n == NextLine("bdrk_path", "gwl_extent")
       IN  CleanStep({"z_line", "eraseFeat", "singleFeat"}, BdrkCleanList, {}, TRUE,
                     "012", n.pc, n.v, IF n.pc = "gwl_extent" THEN 1 ELSE gwlRow)
    /\ KeepRun

\* ---- BEGIN GROUNDWATER SURFACE CREATION
GwlExtentD(g) == <<"ProjectAreaExtent_GWL", 0, g>>

\* "for i in range(0, gwlDEM.rowCount)": without rows the loops do nothing
GwlExtent ==
    /\ pc = "gwl_extent"
    /\ IF gwlDEM = 0
       THEN /\ Goto("grid_lines", 1, 0)
            /\ UNCHANGED <<lineFields, scratch, outputs, fds, zm_line, bound, started, gridRead>>
       ELSE ExtentStep("ProjectAreaExtent_GWL", gwlRow, "gwl_path", Value, gwlRow)
    /\ KeepRun

\* ERROR 013
GwlPath ==
    /\ pc = "gwl_path"
    /\ PathStep("gwl", "013", EraseItems("GWL"), EraseFail(GwlExtentD(gwlRow)),
                EraseBinds, "gwl_conf")
    /\ KeepRun

GwlConfItems(g) ==
    << S("buffWW", 0, g), S("unionWW", 0, 0), S("CONFIDENCE_ZONE", 0, g) >>

\* ERROR 014
GwlConf ==
    /\ pc = "gwl_conf"
    /\ MakeStep(GwlConfItems(gwlRow), NoFail, "014", "gwl_seg", Value, gwlRow)
    /\ KeepPath
    /\ KeepRun

\* the years of a row of the groundwater table as gwlProfile names them:
\* "All Years" or no years give AllYears, else <startYear>_<endYear>
YearTags == {"AllYears", "1990_2000"}

\* gwlProfile: XSEC_<Value>_GWL_<years>_<ve>x; the raster is not in the name
GwlProfile(v, g) == O("GWL", v, gwlYears[g])

GwlSegItems(v, g) ==
    << S("CONFIDENCE_ZONE_polyEvents", v, g), S("layer2", 0, 0),
       S("CONFIDENCE_ZONE_located", v, g), GwlProfile(v, g) >>

\* ERROR 015
GwlSeg ==
    /\ pc = "gwl_seg"
    /\ LET items == GwlSegItems(Value, gwlRow)
       IN  MakeStep(items, SegFail(items), "015", "gwl_clean", Value, gwlRow)
    /\ KeepPath
    /\ KeepRun

GwlCleanList ==
    ZmItem \cup {<<"XSEC_z", Value, 0>>, <<"buffWW", 0, gwlRow>>, <<"unionWW", 0, 0>>,
                 <<"CONFIDENCE_ZONE", 0, gwlRow>>, <<"GWL_ERASE_SINGLE", 0, 0>>,
                 <<"GWL_ERASE", 0, 0>>, <<"CONFIDENCE_ZONE_located", Value, gwlRow>>,
                 <<"CONFIDENCE_ZONE_polyEvents", Value, gwlRow>>}

\* the inner loop goes on with the next raster, the outer with the next Value
GwlNext ==
    IF gwlRow < gwlDEM THEN [pc |-> "gwl_extent", v |-> Value, g |-> gwlRow + 1]
    ELSE IF Value < NumLines THEN [pc |-> "gwl_extent", v |-> Value + 1, g |-> 1]
    ELSE [pc |-> "grid_lines", v |-> 1, g |-> gwlRow]

\* ERROR 016
GwlClean ==
    /\ pc = "gwl_clean"
    /\ LET n == GwlNext
       IN  CleanStep({"z_line", "singleFeat", "eraseFeat"}, GwlCleanList, {}, TRUE,
                     "016", n.pc, n.v, n.g)
    /\ KeepRun

\* ---- BEGIN CREATING GRID LINES FOR CROSS-SECTIONS
GridItems(v) == << O("Frame", v, 0), O("Labels", v, 0) >>

\* "del outRows" ends the body of "for i in range(0, grids.rowCount)": the
\* second pass reads outRows
GridFail == IF grids >= 2 THEN FailAfter(2, "NameError") ELSE NoFail

\* ERROR 017: the path, the extents of the line's outputs, frame and labels
GridLines ==
    /\ pc = "grid_lines"
    /\ PathStep("grid", "017", GridItems(Value),
                IF {<<"LITH", Value, 0>>, <<"TOPO", Value, 0>>} \subseteq outputs
                THEN GridFail ELSE FailAfter(0, "ExecuteError"),
                {}, "grid_clean")
    /\ KeepRun

\* "if custom == "true"": Delete([newBhPoints, newLithTable, newScrnTable])
GridCleanTables ==
    IF custom THEN {<<"BH_MGS", 0, 0>>, <<"LITH_MGS", 0, 0>>, <<"SCRN_MGS", 0, 0>>}
    ELSE {}

\* ERROR 018: Delete([zm_line, z_line]), the custom tables; no DeleteField
GridClean ==
    /\ pc = "grid_clean"
    /\ LET n == NextLine("grid_lines", "done")
       IN  CleanStep({"z_line"}, ZmItem \cup {<<"XSEC_z", Value, 0>>}, GridCleanTables,
                     FALSE, "018", n.pc, n.v, gwlRow)
    /\ KeepRun

\* --------------------------------------------------------------- Spec
Configs ==
    [lineRows : [1..NumLines -> {<<d>> : d \in PipeDirs}],
     hasZ : BOOLEAN, hasM : BOOLEAN, ext3D : BOOLEAN, extLR : BOOLEAN, bdrkDEM : BOOLEAN,
     gwlDEM : 0..MaxGwl, scrnTable : BOOLEAN, custom : BOOLEAN, grids : 1..MaxGrids]

\* the borehole projector is not part of this specification
BhIdle ==
    /\ elevUnits = "Meters" /\ ve = 1 /\ pts = <<>> /\ eventLocTable = <<>>
    /\ bhSticks = <<>> /\ skipped = {} /\ bhpc = "idle"

\* the state in which the tool is started: a fresh project, the line layer as
\* the user drew it
Init ==
    /\ \E c \in Configs :
          /\ lineRows = c.lineRows /\ hasZ = c.hasZ /\ hasM = c.hasM
          /\ ext3D = c.ext3D /\ extLR = c.extLR /\ bdrkDEM = c.bdrkDEM
          /\ gwlDEM = c.gwlDEM /\ gwlYears = [i \in 1..c.gwlDEM |-> "AllYears"]
          /\ scrnTable = c.scrnTable /\ custom = c.custom
          /\ grids = c.grids
    /\ lineFields = {} /\ scratch = {} /\ outputs = {} /\ fds = {}
    /\ pc = "checkExtensions" /\ Value = 1 /\ gwlRow = 0
    /\ zm_line = "none" /\ bound = {} /\ errors = <<>> /\ started = {}
    /\ gridRead = {}
    /\ runs = 1 /\ hist = <<>>
    /\ BhIdle
    /\ AuxIdle

Next ==
    \/ checkExtensions \/ FormatDatasets \/ CreateFDS
    \/ BhPath \/ BhBoreholes \/ BhLith \/ BhScrn \/ BhClean
    \/ TopoExtent \/ TopoProfile \/ TopoClean
    \/ BdrkExtent \/ BdrkPath \/ BdrkConf \/ BdrkSeg \/ BdrkClean
    \/ GwlExtent \/ GwlPath \/ GwlConf \/ GwlSeg \/ GwlClean
    \/ GridLines \/ GridClean

Spec == Init /\ [][Next]_vars

\* ------------------------------------------------------------ SpecGwl
\* The groundwater loops on their own, for any years of the rows of the
\* groundwater table: the project as the borehole and topography stages leave
\* it when no bedrock surface is configured.
MaxSurfaces == 2

\* what the stages before the groundwater stage leave behind
AfterTopo ==
    /\ lineFields = {<<"ROUTEID", 0>>}
    /\ scratch = {<<"ProjectAreaExtent_TOPO", 0, 0>>}
    /\ outputs = UNION {{<<"LITH", v, 0>>, <<"TOPO", v, 0>>} : v \in 1..NumLines}
    /\ fds = 1..NumLines
    /\ zm_line = "XSEC_zm" /\ bound = {"z_line", "cpDir"} /\ errors = <<>>
    /\ started = {<<"bh", v, 0>> : v \in 1..NumLines}
                 \cup {<<"topo", v, 0>> : v \in 1..NumLines}
    /\ gridRead = {}

InitGwl ==
    /\ lineRows = [v \in 1..NumLines |-> <<"W-E">>]
    /\ hasZ = FALSE /\ hasM = FALSE /\ ext3D = TRUE /\ extLR = TRUE
    /\ bdrkDEM = FALSE /\ scrnTable = FALSE /\ custom = FALSE /\ grids = 1
    /\ gwlDEM \in 1..MaxSurfaces
    /\ gwlYears \in [1..gwlDEM -> YearTags]
    /\ AfterTopo
    /\ pc = "gwl_extent" /\ Value = 1 /\ gwlRow = 1
    /\ runs = 1 /\ hist = <<>>
    /\ BhIdle
    /\ AuxIdle

NextGwl == GwlExtent \/ GwlPath \/ GwlConf \/ GwlSeg \/ GwlClean

SpecGwl == InitGwl /\ [][NextGwl]_vars

\* ----------------------------------------------------------- SpecPath
\* One section of the line layer, its rows carrying any DIRECTION values and
\* the layer any geometry; the path-construction block of the first stage
\* (ERROR 002) runs on it, and the tool is started again on the same project.

\* what a run of the path-construction block came to
PathResult(pb, k) ==
    [rows   |-> lineRows[Value], z |-> hasZ, m |-> hasM,
     zm     |-> IF pb.exc = "none" /\ k >= Len(pb.made) THEN pb.zm ELSE "none",
     draped |-> k >= 1 /\ pb.draped,
     routed |-> k >= 2 /\ pb.routed,
     quads  |-> IF k >= 1 THEN pb.quads ELSE <<>>,
     cp     |-> IF k >= 2 THEN pb.cp ELSE "none",
     exc    |-> IF pb.exc = "none" /\ k >= Len(pb.made) THEN "none"
                ELSE IF k = Len(pb.made) THEN pb.exc ELSE "ExecuteError",
     before |-> scratch, after |-> scratch']

InitPath ==
    /\ lineRows \in [{1} -> SeqsUpTo(AllDirs, MaxRows)]
    /\ hasZ \in BOOLEAN /\ hasM \in BOOLEAN
    /\ ext3D = TRUE /\ extLR = TRUE /\ bdrkDEM = FALSE /\ gwlDEM = 0 /\ gwlYears = <<>>
    /\ scrnTable = FALSE /\ custom = FALSE /\ grids = 1
    /\ lineFields = {} /\ scratch = {} /\ outputs = {} /\ fds = {1}
    /\ pc = "bh_path" /\ Value = 1 /\ gwlRow = 0
    /\ zm_line = "none" /\ bound = {} /\ errors = <<>> /\ started = {}
    /\ gridRead = {}
    /\ runs = 1 /\ hist = <<>>
    /\ BhIdle
    /\ AuxIdle

\* the try block of ERROR 002
PathRun ==
    /\ pc = "bh_path"
    /\ LET pb == PathBuilder(lineRows[Value], hasZ, hasM, Value)
       IN  \E k \in Outcomes(PathStepItems(pb, <<>>), PathStepFail(pb, <<>>, NoFail)) :
              /\ PathStepK("bh", "002", <<>>, NoFail, {}, "bh_boreholes", k)
              /\ hist' = Append(hist, PathResult(pb, k))
    /\ UNCHANGED <<cfgVars, runs, bhVars, auxVars>>

\* The tool is started again: a new interpreter, the project as it was left.
Rerun ==
    /\ pc \in {"bh_boreholes", "aborted"}
    /\ runs < MaxRuns
    /\ runs' = runs + 1
    /\ pc' = "bh_path" /\ Value' = 1 /\ gwlRow' = 0
    /\ zm_line' = "none" /\ bound' = {} /\ errors' = <<>> /\ started' = {}
    /\ gridRead' = {}
    /\ UNCHANGED <<cfgVars, lineFields, scratch, outputs, fds, hist, bhVars, auxVars>>

NextPath == PathRun \/ Rerun

SpecPath == InitPath /\ [][NextPath]_vars

\* ------------------------------------------------------------- SpecBH
\* The borehole projector on the boreholes selected near one path.
Elevs == {0 - 100, 0, 500}

Depths == {0, 100}

Boreholes == [elev : Elevs, depth : Depths]

\* a faulty variant: feet are taken as they are
YtopRaw(units, elev) == elev * 10000

\* Ytop of a row, in ten-thousandths of a metre; 0.3048 is 3048 of them
Ytop(units, elev) ==
    IF units = "Meters" THEN elev * 10000 ELSE elev * 3048

\* a faulty variant: the depth is added
YbotUp(units, elev, depth) ==
    Ytop(units, elev) + (IF units = "Meters" THEN depth * 10000 ELSE depth * 3048)

\* Ybot of a row
Ybot(units, elev, depth) ==
    Ytop(units, elev) - (IF units = "Meters" THEN depth * 10000 ELSE depth * 3048)

\* bhArray of a located row: (X, Ytop * ve), (X, Ybot * ve)
Stick(row, units, v) ==
    [id |-> row.id, elev |-> row.elev, depth |-> row.depth,
     top |-> Ytop(units, row.elev) * v,
     bottom |-> Ybot(units, row.elev, row.depth) * v]

\* LocateFeaturesAlongRoutes: borehole j of pts gives mult[j] rows
Located(p, mult) ==
    LET F[j \in 0..Len(p)] ==
          IF j = 0 THEN <<>>
          ELSE F[j - 1] \o [x \in 1..mult[j] |->
                               [id |-> j, elev |-> p[j].elev, depth |-> p[j].depth]]
    IN  F[Len(p)]

\* DeleteIdentical(eventLocTable, "xDupDetect"): the field was added and never
\* calculated, every row holds NULL in it, and of rows that agree in the
\* field the one of lowest object id is kept
DeleteIdentical(rows) == IF rows = <<>> THEN <<>> ELSE <<rows[1]>>

\* "if nRows > nPts and not is_lines"
Dedup(rows, nPts) == IF Len(rows) > nPts THEN DeleteIdentical(rows) ELSE rows

\* the all-steps script is not part of this specification
PipeIdle ==
    /\ lineRows = <<>> /\ hasZ = FALSE /\ hasM = FALSE
    /\ ext3D = TRUE /\ extLR = TRUE /\ bdrkDEM = FALSE /\ gwlDEM = 0 /\ gwlYears = <<>>
    /\ scrnTable = FALSE /\ custom = FALSE /\ grids = 1
    /\ lineFields = {} /\ scratch = {} /\ outputs = {} /\ fds = {}
    /\ pc = "idle" /\ Value = 1 /\ gwlRow = 0
    /\ zm_line = "XSEC_zm" /\ bound = {} /\ errors = <<>> /\ started = {}
    /\ gridRead = {}
    /\ runs = 1 /\ hist = <<>>

InitBH ==
    /\ PipeIdle
    /\ AuxIdle
    /\ elevUnits \in {"Meters", "Feet"}
    /\ ve \in 1..MaxVe
    /\ pts \in SeqsUpTo(Boreholes, MaxPts)
    /\ eventLocTable = <<>> /\ bhSticks = <<>> /\ skipped = {}
    /\ bhpc = "locate"

KeepPipe ==
    UNCHANGED <<cfgVars, lineFields, scratch, outputs, fds, pc, Value, gwlRow, zm_line,
                bound, errors, started, gridRead, runs, hist, auxVars>>

\* locateEvents_Table(pts = zBoreholes, ...): a selected borehole is located
\* once, or twice where the route passes it twice
locateEvents_Table ==
    /\ bhpc = "locate"
    /\ \E mult \in [1..Len(pts) -> {1, 2}] :
          eventLocTable' = Dedup(Located(pts, mult), Len(pts))
    /\ bhpc' = "sticks"
    /\ UNCHANGED <<elevUnits, ve, pts, bhSticks, skipped>>
    /\ KeepPipe

\* a faulty variant: the first row that fails ends the loop
WithoutAbort(rows, drop) ==
    LET first == IF drop = {} THEN Len(rows) + 1
                 ELSE CHOOSE j \in drop : \A x \in drop : j <= x
    IN  [j \in 1..(first - 1) |-> rows[j]]

\* the rows of a table but those at the positions in drop, in order
Without(rows, drop) ==
    LET F[j \in 0..Len(rows)] ==
          IF j = 0 THEN <<>>
          ELSE IF j \in drop THEN F[j - 1] ELSE Append(F[j - 1], rows[j])
    IN  F[Len(rows)]

\* boreholes(locatedPoints): one stick for every located row; a row whose
\* insertRow raises is reported by its object id (skipped) and left out
boreholes ==
    /\ bhpc = "sticks"
    /\ \E drop \in SUBSET (1..Len(eventLocTable)) :
          /\ skipped' = drop
          /\ bhSticks' = Without([j \in 1..Len(eventLocTable) |->
                                     Stick(eventLocTable[j], elevUnits, ve)], drop)
    /\ bhpc' = "done"
    /\ UNCHANGED <<elevUnits, ve, pts, eventLocTable>>
    /\ KeepPipe

NextBH == locateEvents_Table \/ boreholes

SpecBH == InitBH /\ [][NextBH]_vars

\* ------------------------------------------------------------ SpecSeg
\* The interval segmenter: the lithology and screens try blocks and the
\* cleanup of the borehole loop, in the all-steps script and in the boreholes
\* script, on the sticks of every line.
Wells == {"W1", "W2"}

\* BOREH_DEPTH and zDEM of the sticks of this specification
StickRow(w) == [id |-> w, elev |-> 500, depth |-> 100]

\* depth_top, depth_bot of a row: inside the stick, across its bottom, below it
Spans == {<<0, 50>>, <<50, 150>>, <<150, 200>>}

TableRows(tbl, ws, sp) ==
    {[tbl |-> tbl, well |-> w, from |-> sp[1], to |-> sp[2]] : w \in ws}

LithTables == {TableRows("lith", ws, sp) : ws \in SUBSET Wells, sp \in Spans}

ScrnTables == {TableRows("scrn", ws, <<0, 50>>) : ws \in SUBSET Wells}

\* the point of a stick at measure m of its route: CreateRoutes(bhLines,
\* "WELLID", lithRoute, "ONE_FIELD", "BOREH_DEPTH", "#", "UPPER_LEFT") gives the
\* top the measure 0 and the bottom the measure BOREH_DEPTH
YAt(stick, m) == stick.top + ((stick.bottom - stick.top) * m) \div stick.depth

\* a faulty variant: the event is drawn at its measures, on or off the route
LocateRaw(stick, from, to) == <<YAt(stick, from), YAt(stick, to)>>

\* MakeRouteEventLayer of a line event: the part of the route between the
\* measures; a measure past the end of the route is a partial match, located
\* up to the end; an event off the route has no shape
LocateEvent(stick, from, to) ==
    IF stick.depth = 0 \/ from > stick.depth \/ to < 0 THEN <<>>
    ELSE <<YAt(stick, IF from < 0 THEN 0 ELSE from),
           YAt(stick, IF to > stick.depth THEN stick.depth ELSE to)>>

\* a row of the exported event layer
IntervalStick(v, cat, r) ==
    [line |-> v, cat |-> cat, src |-> r.tbl, well |-> r.well,
     from |-> r.from, to |-> r.to,
     shape |-> LocateEvent(Stick(StickRow(r.well), elevUnits, ve), r.from, r.to)]

\* the event layer of a table on lithRoute without the rows whose LOC_ERROR
\* is ROUTE NOT FOUND
Segment(v, cat, rows) ==
    {IntervalStick(v, cat, r) : r \in {x \in rows : x.well \in bhWells[v]}}

\* SelectLayerByAttribute(newLithTable, "ADD_TO_SELECTION", "WELLID IN (...)"):
\* the selection of a table view is kept between calls, a table given by its
\* path is opened as a new layer
AddToSelection(v) ==
    (IF tableView THEN lithSel ELSE {}) \cup {r \in lithRows : r.well \in bhWells[v]}

InitSeg ==
    /\ PipeIdle /\ BhIdle /\ ConfIdle /\ GridIdle
    /\ script \in {"AllSteps", "Boreholes"}
    /\ tableView \in BOOLEAN
    /\ bhWells \in [1..NumLines -> SUBSET Wells]
    /\ lithRows \in LithTables
    /\ scrnRows \in ScrnTables
    /\ lithSel = {} /\ cand = <<>> /\ intervals = {}
    /\ segLine = 1 /\ segpc = "lith"

KeepSeg ==
    /\ UNCHANGED <<script, tableView, bhWells, lithRows, scrnRows>>
    /\ UNCHANGED <<cfgVars, runVars, bhVars, confVars, gridVars>>

\* ERROR 004. Without sticks "del row, cursor" raises NameError.
SegLith ==
    /\ segpc = "lith"
    /\ IF bhWells[segLine] = {}
       THEN /\ segpc' = "aborted"
            /\ UNCHANGED <<lithSel, cand, intervals>>
       ELSE /\ lithSel' = IF tableView THEN AddToSelection(segLine) ELSE lithSel
            /\ cand' = cand @@ (<<segLine, "lith">> :> AddToSelection(segLine))
            /\ \/ /\ intervals' = intervals
                                  \cup Segment(segLine, "lith", AddToSelection(segLine))
                  /\ segpc' = "scrn"
               \/ /\ intervals' = intervals
                  /\ segpc' = "aborted"
    /\ UNCHANGED segLine
    /\ KeepSeg

\* the table the screens block reads: the all-steps script selects once more
\* from newLithTable, the boreholes script passes scrnTable as it is
ScreenCandidates(v) ==
    IF script = "AllSteps" THEN AddToSelection(v) ELSE scrnRows

\* ERROR 005
SegScrn ==
    /\ segpc = "scrn"
    /\ lithSel' = IF script = "AllSteps" /\ tableView THEN AddToSelection(segLine)
                  ELSE lithSel
    /\ cand' = cand @@ (<<segLine, "scrn">> :> ScreenCandidates(segLine))
    /\ \/ /\ intervals' = intervals
                          \cup Segment(segLine, "scrn", ScreenCandidates(segLine))
          /\ segpc' = "clean"
       \/ /\ intervals' = intervals
          /\ segpc' = "aborted"
    /\ UNCHANGED segLine
    /\ KeepSeg

\* ERROR 006: the all-steps script clears the selection of newLithTable, the
\* boreholes script that of newScrnTable only
SegClean ==
    /\ segpc = "clean"
    /\ lithSel' = IF script = "AllSteps" THEN {} ELSE lithSel
    /\ IF segLine < NumLines
       THEN segLine' = segLine + 1 /\ segpc' = "lith"
       ELSE segLine' = segLine /\ segpc' = "done"
    /\ UNCHANGED <<cand, intervals>>
    /\ KeepSeg

NextSeg == SegLith \/ SegScrn \/ SegClean

SpecSeg == InitSeg /\ [][NextSeg]_vars

\* ----------------------------------------------------------- SpecConf
\* The confidence zone of one surface along one path, the path taken as a row
\* of cells: the try blocks of ERROR 010 and ERROR 011.
PathLen == 3

Cells == 1..PathLen

\* a faulty variant: the buffer is laid over the footprint, not cut with it
UnionWhole(ext, buf) ==
    {p \in {[fidExt |-> 1, fidBuf |-> 0 - 1, cells |-> ext],
            [fidExt |-> 1, fidBuf |-> 1, cells |-> ext \cap buf],
            [fidExt |-> 0 - 1, fidBuf |-> 1, cells |-> buf \ ext]} : p.cells # {}}

\* Union([featExtent, buff], ..., "ONLY_FID", None, "GAPS"): one piece for
\* every combination of inputs that is not empty; the FID of the one feature
\* of an input the piece lies in, -1 for an input it lies outside of
Union(ext, buf) ==
    {p \in {[fidExt |-> 1, fidBuf |-> 0 - 1, cells |-> ext \ buf],
            [fidExt |-> 1, fidBuf |-> 1, cells |-> ext \cap buf],
            [fidExt |-> 0 - 1, fidBuf |-> 1, cells |-> buf \ ext]} : p.cells # {}}

\* a faulty variant: the two values are exchanged
ConfidenceSwapped(f0, f1) ==
    IF f0 = 1 /\ f1 = 1 THEN "INFERRED"
    ELSE IF f0 = 1 /\ f1 = 0 - 1 THEN "CONFIDENT" ELSE Null

\* the update cursor: row[2] after the three "if" statements
Confidence(f0, f1) ==
    IF f0 = 1 /\ f1 = 1 THEN "CONFIDENT"
    ELSE IF f0 = 1 /\ f1 = 0 - 1 THEN "INFERRED" ELSE Null

\* "if row[0] == -1: cursor.deleteRow()"
Deleted(f0) == f0 = 0 - 1

\* the rows of the confidence zone after the update cursor
Classified(pieces) ==
    {[fidExt |-> p.fidExt, fidBuf |-> p.fidBuf, cells |-> p.cells,
      conf |-> Confidence(p.fidExt, p.fidBuf)] : p \in {x \in pieces : ~Deleted(x.fidExt)}}

\* the maximal runs of neighbouring cells of a set, as <<FromM, ToM>>
Runs(cs) ==
    {r \in cs \X cs :
        /\ r[1] <= r[2]
        /\ \A c \in r[1]..r[2] : c \in cs
        /\ (r[1] - 1) \notin cs /\ (r[2] + 1) \notin cs}

\* LocateFeaturesAlongRoutes(zone, zm_line, ..., "rkey LINE FromM ToM") and
\* placeEvents: one line event for every stretch of the route inside a polygon
LocatedSpans(rows) ==
    UNION {{[conf |-> z.conf, from |-> r[1], to |-> r[2]] : r \in Runs(z.cells)}
              : z \in rows}

\* the sum of the lengths of a set of stretches
RECURSIVE SumLength(_)
SumLength(rs) ==
    IF rs = {} THEN 0
    ELSE LET r == CHOOSE x \in rs : TRUE
         IN  (r[2] - r[1] + 1) + SumLength(rs \ {r})

\* Erase("lineLayers", featExtent) and MultipartToSinglepart: the stretches of
\* the path outside the footprint
ErasedPieces(ext) == Runs(Cells \ ext)

\* "for geometry in geometries": the profile starts after the path does when
\* the first cell is outside the footprint; the standalone script asks for
\* that "and" a piece at the origin for bedrock, every other loop has "or"
MoveLength(scr, surf, ext) ==
    IF scr = "SegmentProfile" /\ surf = "BDRK"
    THEN SumLength({r \in ErasedPieces(ext) : 1 \notin ext /\ r[1] = 1})
    ELSE SumLength({r \in ErasedPieces(ext) : 1 \notin ext \/ r[1] = 1})

\* a faulty variant: the features that match are added to the selection
SelectAdding(sel, match) == sel \cup match

\* SelectLayerByAttribute(newBhPoints, "NEW_SELECTION", where_clause)
SelectLayerByAttribute(sel, match) == match

\* Buffer(..., "ALL"): the cells the buffer of the boreholes reaches over
Buffer(bhs) == {c \in Cells : \E b \in bhs : b = c}

\* the boreholes the buffer of the surface is built from
Buffered(isFiltered, sel, match) ==
    IF isFiltered THEN SelectLayerByAttribute(sel, match) ELSE sel

\* rows in ascending order of FromM
RECURSIVE SortFromM(_)
SortFromM(rows) ==
    IF rows = {} THEN <<>>
    ELSE LET r == CHOOSE x \in rows : \A y \in rows : x.from <= y.from
         IN  <<r>> \o SortFromM(rows \ {r})

\* the events of one polygon, in the order of the route
EventsOf(z) ==
    SortFromM({[conf |-> z.conf, from |-> r[1], to |-> r[2]] : r \in Runs(z.cells)})

\* the event table of LocateFeaturesAlongRoutes: polygon after polygon, the
\* polygon z1 first
EventTable(rows, z1) ==
    LET rest == rows \ {z1}
    IN  EventsOf(z1) \o (IF rest = {} THEN <<>> ELSE EventsOf(CHOOSE z \in rest : TRUE))

\* Sort(conEventsTable, conEvent_sort, [["FromM", "ASCENDING"]])
Sort(tbl) == SortFromM({tbl[i] : i \in DOMAIN tbl})

\* eventTable of placeEvents: only the standalone script sorts, for bedrock
Handed(scr, surf, tbl) ==
    IF scr = "SegmentProfile" /\ surf = "BDRK" THEN Sort(tbl) ELSE tbl

InitConf ==
    /\ PipeIdle /\ BhIdle /\ SegIdle /\ GridIdle
    /\ extentCells \in SUBSET Cells
    /\ confScript \in {"AllSteps", "SegmentProfile"}
    /\ surface \in {"BDRK", "GWL"}
    /\ bhCells \in SUBSET Cells
    /\ matching \in SUBSET bhCells
    /\ filtered \in IF surface = "BDRK" THEN {TRUE} ELSE BOOLEAN
    /\ bhSel \in (SUBSET bhCells \ {{}}) \cup {bhCells}
    /\ buffCells = {} /\ zoneRows = {} /\ spans = {} /\ confpc = "path"
    /\ moveLength = 0 /\ handed = <<>>

KeepConf ==
    /\ UNCHANGED <<extentCells, confScript, surface, bhCells, matching, filtered, bhSel>>
    /\ UNCHANGED <<cfgVars, runVars, bhVars, segVars, gridVars>>

\* ERROR 009 and ERROR 013: the route of the draped line, the erased pieces,
\* moveLength; a path outside the footprint has no draped line
ConfPath ==
    /\ confpc = "path"
    /\ \/ /\ extentCells # {}
          /\ moveLength' = MoveLength(confScript, surface, extentCells)
          /\ confpc' = "zone"
       \/ moveLength' = moveLength /\ confpc' = "aborted"
    /\ UNCHANGED <<buffCells, zoneRows, spans, handed>>
    /\ KeepConf

\* ERROR 010 and ERROR 014: Buffer, Union, CopyFeatures, the update cursor
ConfZone ==
    /\ confpc = "zone"
    /\ \/ /\ buffCells' = Buffer(Buffered(filtered, bhSel, matching))
          /\ zoneRows' = Classified(Union(extentCells, buffCells'))
          /\ confpc' = "segment"
       \/ UNCHANGED <<buffCells, zoneRows>> /\ confpc' = "aborted"
    /\ UNCHANGED <<spans, moveLength, handed>>
    /\ KeepConf

\* ERROR 011 and ERROR 015: the zones located along the route, the profile
\* of the events
ConfSegment ==
    /\ confpc = "segment"
    /\ \/ /\ spans' = LocatedSpans(zoneRows)
          /\ \/ zoneRows = {} /\ handed' = <<>>
             \/ \E z1 \in zoneRows :
                    handed' = Handed(confScript, surface, EventTable(zoneRows, z1))
          /\ confpc' = "done"
       \/ UNCHANGED <<spans, handed>> /\ confpc' = "aborted"
    /\ UNCHANGED <<buffCells, zoneRows, moveLength>>
    /\ KeepConf

NextConf == ConfPath \/ ConfZone \/ ConfSegment

SpecConf == InitConf /\ [][NextConf]_vars

\* ----------------------------------------------------------- SpecGrid
\* The frame and the distance ticks of one grid configuration. Lengths are
\* whole numbers of 0.0008 m, so that a foot (0.3048 m) is a whole number.
MaxHalf == 3
MaxInt == 2

\* the length of a unit of the grids table
UnitLen(u) ==
    CASE u = "Meters" -> 1250
      [] u = "Kilometers" -> 1250000
      [] u = "Feet" -> 381
      [] u = "Miles" -> 381 * 5280

\* a faulty variant: a half is rounded away from zero
RoundHalfAway(n, d) ==
    LET q == n \div d
        r == n % d
    IN  IF 2 * r < d THEN q
        ELSE IF 2 * r > d THEN q + 1
        ELSE IF n >= 0 THEN q + 1 ELSE q

\* Python's round(n / d) for d > 0: to the nearest integer, a half to the even one
Round(n, d) ==
    LET q == n \div d
        r == n % d
    IN  IF 2 * r < d THEN q
        ELSE IF 2 * r > d THEN q + 1
        ELSE IF q % 2 = 0 THEN q ELSE q + 1

\* Python's int(n / d) for d > 0: towards zero
Trunc(n, d) == IF n >= 0 THEN n \div d ELSE 0 - ((0 - n) \div d)

\* Python's n // d for d > 0
Floor(n, d) == n \div d

\* round2int(x = n / d, base)
round2int(n, d, base) == base * Round(n, d * base)

\* botY: Ymin in yUnits without exaggeration, rounded to the interval
BotY == round2int(Ymin, gridVe * UnitLen(yUnits), yInt)

\* newYmin
NewYmin ==
    IF Trunc(Ymin, gridVe * UnitLen(yUnits)) < BotY
    THEN (BotY * gridVe * UnitLen(yUnits)) - (yInt * gridVe * UnitLen(yUnits))
    ELSE BotY * gridVe * UnitLen(yUnits)

\* elevTickMax: Ymax // ve, in yUnits, rounded to the interval
ElevTickMax ==
    IF yUnits = "Meters"
    THEN round2int(Floor(Ymax, gridVe * 1250), 1, yInt)
    ELSE round2int(Floor(Ymax, gridVe * 1250) * 1250, 381, yInt)

\* the top of the frame; neither branch is taken when the tick is at Ymax, and
\* newElevTickMax is not assigned
NewYmaxAssigned == ElevTickMax * UnitLen(yUnits) * gridVe # Ymax

NewYmax ==
    IF ElevTickMax * UnitLen(yUnits) * gridVe < Ymax
    THEN (ElevTickMax * UnitLen(yUnits) * gridVe) + (yInt * UnitLen(yUnits) * gridVe)
    ELSE ElevTickMax * UnitLen(yUnits) * gridVe

\* distTickMax: Xmax in xUnits, rounded to the interval; distances in xUnits
\* are whole numbers of 1 / xDen of a unit, in which the interval is xInt
DistTickMax ==
    CASE xUnits = "Meters" -> round2int(Xmax * xDen, 1250, xInt)
      [] xUnits = "Kilometers" -> round2int(Xmax * xDen, 1250000, xInt)
      [] xUnits = "Feet" -> round2int(Floor(Xmax, 381) * xDen, 1, xInt)
      [] xUnits = "Miles" -> round2int(Floor(Xmax, 381) * xDen, 5280, xInt)

\* a faulty variant: the rounded value is the last tick
NewDistTickMaxRounded == DistTickMax

\* newDistTickMax: one interval less when the rounded value is past Xmax
NewDistTickMax ==
    IF DistTickMax * UnitLen(xUnits) > Xmax * xDen THEN DistTickMax - xInt
    ELSE DistTickMax

\* np.arange(start, stop, step) for whole numbers, step > 0
arange(start, stop, step) ==
    IF stop <= start THEN <<>>
    ELSE [k \in 1..(((stop - start) + step - 1) \div step) |-> start + (k - 1) * step]

\* distTickMin = round2int(Xmin, xInt) with Xmin = 0
DistList == arange(round2int(0, UnitLen(xUnits), xInt), NewDistTickMax + xDen, xInt)

\* elevTickMin: newYmin // ve, in yUnits, rounded to the interval
ElevTickMin ==
    IF yUnits = "Meters"
    THEN round2int(Floor(NewYmin, gridVe * 1250), 1, yInt)
    ELSE round2int(Floor(NewYmin, gridVe * 1250) * 1250, 381, yInt)

\* newElevTickMax
NewElevTickMax ==
    IF ElevTickMax * UnitLen(yUnits) * gridVe < Ymax THEN ElevTickMax + yInt
    ELSE ElevTickMax

ElevList == arange(ElevTickMin, NewElevTickMax + 1, yInt)

\* a tick value y of a list printed by str(y): the value num / den
TickText(num, den) == <<num, den>>

\* a tick value printed by str(int(y)): the whole part
LabelText(num, den) == <<Trunc(num, den), 1>>

\* outRows.insertRow for the elevation ticks, the distance ticks and the frame
FrameRows ==
    [k \in 1..Len(ElevList) |->
        [type |-> "ELEVATION MARK", label |-> TickText(ElevList[k], 1)]]
    \o [k \in 1..Len(DistList) |->
        [type |-> "DISTANCE MARK", label |-> TickText(DistList[k], xDen)]]
    \o << [type |-> "FRAME", label |-> <<0, 1>>] >>

\* labelRows.insertRow for the elevation ticks and the distance ticks
LabelRows ==
    [k \in 1..Len(ElevList) |->
        [type |-> "ELEVATION MARK", label |-> LabelText(ElevList[k], 1)]]
    \o [k \in 1..Len(DistList) |->
        [type |-> "DISTANCE MARK", label |-> LabelText(DistList[k], xDen)]]

\* the Y and X the frame is built for
Heights == {h * 625 : h \in (0 - MaxHalf)..MaxHalf}
Lengths == {h * 625 : h \in 0..MaxHalf}
Intervals == 1..MaxInt

InitGrid ==
    /\ PipeIdle /\ BhIdle /\ SegIdle /\ ConfIdle
    /\ Ymin \in Heights /\ Ymax \in Heights /\ Ymin <= Ymax
    /\ \/ Xmax \in Lengths /\ xInt \in Intervals
       \/ Xmax = 1234 * 1250 /\ xInt = 500
    /\ gridVe \in 1..MaxVe
    /\ xDen \in {1, 2}
    /\ xUnits \in {"Meters", "Kilometers", "Feet", "Miles"}
    /\ yInt \in Intervals
    /\ yUnits \in {"Meters", "Feet"}
    /\ newYmin = 0 /\ newYmax = 0 /\ distList = <<>> /\ gridpc = "frame"
    /\ botY = 0 /\ frameRows = <<>> /\ labelRows = <<>>

KeepGrid ==
    /\ UNCHANGED <<Ymin, Ymax, Xmax, gridVe, xInt, xDen, xUnits, yInt, yUnits>>
    /\ UNCHANGED <<cfgVars, runVars, bhVars, segVars, confVars>>

\* one pass of "for i in range(0, grids.rowCount)" up to the frame
GridFrame ==
    /\ gridpc = "frame"
    /\ botY' = BotY
    /\ newYmin' = NewYmin
    /\ distList' = DistList
    /\ IF NewYmaxAssigned
       THEN /\ newYmax' = NewYmax /\ gridpc' = "done"
            /\ frameRows' = FrameRows /\ labelRows' = LabelRows
       ELSE /\ newYmax' = newYmax /\ gridpc' = "NameError"
            /\ UNCHANGED <<frameRows, labelRows>>
    /\ KeepGrid

NextGrid == GridFrame

SpecGrid == InitGrid /\ [][NextGrid]_vars

\* ------------------------------------------------------------- claims
PerLineCodes ==
    {"002", "003", "004", "005", "006", "007", "008", "009", "010", "011", "012",
     "013", "014", "015", "016", "017", "018"}

StageRank(stage) ==
    CASE stage = "bh" -> 1 [] stage = "topo" -> 2 [] stage = "bdrk" -> 3
      [] stage = "gwl" -> 4 [] stage = "grid" -> 5 [] OTHER -> 0

C2_ScratchCleared ==
    pc \in {"aborted", "done"} => {d \in scratch : d[2] # 0} = {}

\* C3: after a complete run the line layer holds no routing identifier field
\* of any line.
C3_FieldRemoved ==
    pc = "done" => \A v \in 1..NumLines : checkField(v) \notin lineFields

\* C4, as the specification states it: a run that ends for an unrecognized
\* direction or a missing licence has processed no line and has no output.
C4_NothingProcessed ==
    (errors # <<>> /\ errors[1][3] \in {"KeyError", "TypeError"}) =>
        started = {} /\ outputs = {}

\* C4, amended: a missing licence ends the run before any line is entered
\* and before anything is written. On a layer that lacks Z or M an unrecognized
\* direction ends the run when the borehole stage reaches the line that
\* carries it (ERROR 002): the lines before it have been entered, only they
\* have outputs, and no line of unrecognized direction ever has an output.
C4_ConfigAbort ==
    /\ (errors # <<>> /\ errors[1][3] = "TypeError") =>
          /\ pc = "aborted" /\ errors[1][1] = "none"
          /\ started = {} /\ outputs = {} /\ scratch = {} /\ lineFields = {}
    /\ (errors # <<>> /\ errors[1][3] = "KeyError") =>
          /\ pc = "aborted" /\ errors[1][1] = "002"
          /\ \E j \in DOMAIN lineRows[errors[1][2]] :
                lineRows[errors[1][2]][j] \notin DirCodes
          /\ started = {<<"bh", w, 0>> : w \in 1..errors[1][2]}
          /\ \A d \in outputs : d[2] < errors[1][2]
    /\ ~(hasZ /\ hasM) =>
          /\ \A d \in outputs : \A j \in DOMAIN lineRows[d[2]] :
                                   lineRows[d[2]][j] \in DirCodes
          /\ pc = "done" => \A v \in 1..NumLines : \A j \in DOMAIN lineRows[v] :
                                   lineRows[v][j] \in DirCodes

\* the second line carries the unrecognized direction; the first has outputs
C4_Witness ==
    /\ pc = "aborted" /\ errors # <<>>
    /\ errors[1] = <<"002", 2, "KeyError">>
    /\ <<"LITH", 1, 0>> \in outputs

\* C5: a run of the path builder on a section one of whose rows carries an
\* unrecognized direction builds no route.
C5_NoRouteFromBadDirection ==
    \A i \in DOMAIN hist :
        (\E j \in DOMAIN hist[i].rows : hist[i].rows[j] \notin DirCodes)
            => ~hist[i].routed

\* the mapping of C6: direction code -> <<quadrant, origin corner>>
OriginCorner ==
    [d \in DirCodes |->
        CASE d \in {"W-E", "NW-SE", "E-W"} -> <<"Northwest", "UPPER_LEFT">>
          [] d \in {"SW-NE", "S-N", "N-S"} -> <<"Southwest", "LOWER_LEFT">>
          [] d = "NE-SW" -> <<"Northeast", "UPPER_RIGHT">>
          [] d = "SE-NW" -> <<"Southeast", "LOWER_RIGHT">>]

\* C6: every row of a recognized code gets the quadrant of the mapping, and
\* a route built for a line of one recognized code is created with the
\* origin corner of the mapping.
C6_FixedMapping ==
    \A i \in DOMAIN hist :
        /\ hist[i].draped =>
              \A j \in DOMAIN hist[i].rows :
                  hist[i].rows[j] \in DirCodes =>
                      hist[i].quads[j] = OriginCorner[hist[i].rows[j]][1]
        /\ \A d \in DirCodes :
              (hist[i].routed /\ Range(hist[i].rows) = {d}) =>
                  hist[i].cp = OriginCorner[d][2]

\* a route has been built for a line of code E-W, from the upper-left corner
C6_Witness ==
    /\ pc = "bh_boreholes" /\ hist # <<>>
    /\ hist[Len(hist)].routed
    /\ hist[Len(hist)].rows = <<"E-W">>
    /\ hist[Len(hist)].cp = "UPPER_LEFT"

\* C7: on a layer that has Z and M the path builder returns the line layer
\* itself, drapes nothing, builds no route, writes no dataset and does not
\* fail; a second run returns the same Path.
C7_FastPathIdempotent ==
    \A i \in DOMAIN hist :
        (hist[i].z /\ hist[i].m) =>
            /\ hist[i].zm = "lineLayers"
            /\ ~hist[i].draped /\ ~hist[i].routed
            /\ hist[i].exc = "none"
            /\ hist[i].after = hist[i].before
            /\ \A j \in DOMAIN hist : hist[j].zm = hist[i].zm

\* the path builder has run twice on a layer with Z and M
C7_Witness ==
    /\ hasZ /\ hasM /\ runs = 2 /\ Len(hist) = 2
    /\ hist[2].zm = "lineLayers" /\ scratch = {}

\* C8, as the specification states it: 500 ft of elevation, 100 ft of depth
\* and ve = 1 give a stick from 500 to 400.
C8_FeetExample ==
    \A i \in DOMAIN bhSticks :
        (elevUnits = "Feet" /\ ve = 1 /\ bhSticks[i].elev = 500
            /\ bhSticks[i].depth = 100) =>
            bhSticks[i].top = 500 * 10000 /\ bhSticks[i].bottom = 400 * 10000

\* C8, amended: top and bottom of every stick are ve times the surface
\* elevation and ve times (surface elevation - depth), taken as they are for
\* Meters and multiplied by 0.3048 for Feet: 500 ft, 100 ft and ve = 1 give
\* top = 152.4 and bottom = 121.92.
C8_TopBottom ==
    \A i \in DOMAIN bhSticks :
        LET s == bhSticks[i]
        IN  /\ elevUnits = "Meters" =>
                  /\ s.top = ve * s.elev * 10000
                  /\ s.bottom = ve * (s.elev - s.depth) * 10000
            /\ elevUnits = "Feet" =>
                  /\ s.top = ve * s.elev * 3048
                  /\ s.bottom = ve * (s.elev - s.depth) * 3048
            /\ (elevUnits = "Feet" /\ ve = 1 /\ s.elev = 500 /\ s.depth = 100) =>
                  s.top = 1524000 /\ s.bottom = 1219200

\* a stick of 500 ft and 100 ft at ve = 1
C8_Witness ==
    /\ bhpc = "done" /\ elevUnits = "Feet" /\ ve = 1
    /\ \E i \in DOMAIN bhSticks :
          /\ bhSticks[i].elev = 500 /\ bhSticks[i].depth = 100
          /\ bhSticks[i].top = 1524000

C10_OneRowEach ==
    bhpc \in {"sticks", "done"} =>
        \A j \in 1..Len(pts) :
            Cardinality({x \in DOMAIN eventLocTable : eventLocTable[x].id = j}) = 1

\* C11: the stick builder ends normally whatever inserts fail; every row
\* whose insert failed is reported by its object id and has no stick, and
\* every other located row has its stick, in the order of the rows.
C11_InsertFailureSkipsRow ==
    bhpc = "done" =>
        /\ skipped \subseteq 1..Len(eventLocTable)
        /\ Len(bhSticks) = Len(eventLocTable) - Cardinality(skipped)
        /\ \A j \in 1..Len(eventLocTable) :
              j \notin skipped =>
                  LET i == j - Cardinality({x \in skipped : x < j})
                  IN  /\ bhSticks[i].id = eventLocTable[j].id
                      /\ bhSticks[i].elev = eventLocTable[j].elev
                      /\ bhSticks[i].depth = eventLocTable[j].depth

\* the insert of the first of two rows failed, the second has its stick
C11_Witness ==
    /\ bhpc = "done" /\ Len(eventLocTable) = 2 /\ skipped = {1}
    /\ Len(bhSticks) = 1 /\ bhSticks[1].id = eventLocTable[2].id

\* C12: the shape of every interval stick lies between the bottom and the top
\* of the stick of its well.
C12_IntervalWithinStick ==
    \A iv \in intervals :
        iv.shape # <<>> =>
            LET parent == Stick(StickRow(iv.well), elevUnits, ve)
            IN  /\ parent.bottom <= iv.shape[2]
                /\ iv.shape[2] <= iv.shape[1]
                /\ iv.shape[1] <= parent.top

\* an interval that goes deeper than its borehole ends at the stick's bottom
C12_Witness ==
    \E iv \in intervals :
        /\ iv.to > StickRow(iv.well).depth /\ iv.shape # <<>>
        /\ iv.shape[2] = Stick(StickRow(iv.well), elevUnits, ve).bottom

\* C19: the rows given to the segmenter for the lithology of a line are
\* exactly the rows of the lithology table whose well has a stick on that
\* line.
C19_CandidatesOfLine ==
    \A key \in DOMAIN cand :
        key[2] = "lith" =>
            cand[key] = {r \in lithRows : r.well \in bhWells[key[1]]}

\* C20: every screen stick is built from a row of the screens table.
C20_ScreensFromScreenTable ==
    \A iv \in intervals : iv.cat = "scrn" => iv.src = "scrn"

\* C13: when the groundwater stage has ended, every line has as many
\* groundwater profiles as groundwater surfaces are configured.
C13_ProfilePerSurface ==
    pc = "grid_lines" =>
        \A v \in 1..NumLines :
            Cardinality({d \in outputs : d[1] = "GWL" /\ d[2] = v}) = gwlDEM

\* C14: no row of the confidence zone lies outside the surface's footprint;
\* a row inside its footprint and outside the buffer is INFERRED, a row in
\* both is CONFIDENT, and every row has exactly one of the two values.
C14_ClassifiedByMembership ==
    confpc \in {"segment", "done"} =>
        /\ \A z \in zoneRows :
              /\ z.cells # {} /\ z.cells \subseteq extentCells
              /\ z.conf \in {"CONFIDENT", "INFERRED"}
              /\ z.cells \cap buffCells = {} => z.conf = "INFERRED"
              /\ z.cells \subseteq buffCells => z.conf = "CONFIDENT"
              /\ z.cells \cap buffCells = {} \/ z.cells \subseteq buffCells
        /\ \A c \in extentCells : \E z \in zoneRows : c \in z.cells

\* a footprint with a part inside the buffer and a part outside of it, and
\* a part of the buffer outside the footprint
C14_Witness ==
    /\ confpc = "segment"
    /\ \E z \in zoneRows : z.conf = "CONFIDENT"
    /\ \E z \in zoneRows : z.conf = "INFERRED"
    /\ buffCells \ extentCells # {}

\* C15: the spans of a surface are pairwise disjoint, each is CONFIDENT or
\* INFERRED, and together they cover exactly the cells of the path inside
\* the surface's footprint.
C15_SpansPartitionExtent ==
    confpc = "done" =>
        /\ \A a \in spans : a.conf \in {"CONFIDENT", "INFERRED"} /\ a.from <= a.to
        /\ \A a \in spans : \A b \in spans :
              a # b => (a.from..a.to) \cap (b.from..b.to) = {}
        /\ UNION {a.from..a.to : a \in spans} = extentCells

\* spans of both values along a path that leaves the footprint
C15_Witness ==
    /\ confpc = "done"
    /\ \E a \in spans : a.conf = "CONFIDENT"
    /\ \E a \in spans : a.conf = "INFERRED"
    /\ extentCells # Cells

\* C16: for every Ymin and Ymax, every elevation interval and unit, the
\* bottom of the frame is not above Ymin and its top is not below Ymax.
C16_FrameHoldsData ==
    gridpc = "done" => newYmin <= Ymin /\ newYmax >= Ymax

C18_EveryGridConfiguration ==
    grids >= 2 =>
        \A i \in DOMAIN errors : ~(errors[i][1] = "017" /\ errors[i][3] = "NameError")

\* C24 as stated: round2int gives the multiple of the interval nearest to x,
\* and of the two multiples at the same distance the one away from zero.
C24_HalfAwayFromZero ==
    gridpc # "frame" =>
        LET len  == gridVe * UnitLen(yUnits)
            dist == IF botY * len >= Ymin THEN (botY * len) - Ymin ELSE Ymin - (botY * len)
        IN  /\ botY % yInt = 0
            /\ 2 * dist <= yInt * len
            /\ 2 * dist = yInt * len => (IF Ymin >= 0 THEN botY * len > Ymin
                                                     ELSE botY * len < Ymin)

\* C24 amended: round2int gives the multiple of the interval nearest to x, and
\* of the two multiples at the same distance the even multiple.
C24_HalfToEven ==
    gridpc # "frame" =>
        LET len  == gridVe * UnitLen(yUnits)
            dist == IF botY * len >= Ymin THEN (botY * len) - Ymin ELSE Ymin - (botY * len)
        IN  /\ botY % yInt = 0
            /\ 2 * dist <= yInt * len
            /\ 2 * dist = yInt * len => (botY \div yInt) % 2 = 0

\* a negative Ymin half way between two multiples, rounded towards zero
C24_Witness ==
    /\ gridpc # "frame"
    /\ Ymin < 0
    /\ 2 * ((botY * gridVe * UnitLen(yUnits)) - Ymin) = yInt * gridVe * UnitLen(yUnits)

\* C25: every elevation tick and every distance tick has one tick line and
\* one label point, and the label carries the value of its tick line.
C25_LabelPerTick ==
    gridpc = "done" =>
        /\ Len(frameRows) = Len(labelRows) + 1
        /\ frameRows[Len(frameRows)].type = "FRAME"
        /\ \A k \in 1..Len(labelRows) :
              /\ labelRows[k].type = frameRows[k].type
              /\ labelRows[k].label[1] * frameRows[k].label[2]
                    = frameRows[k].label[1] * labelRows[k].label[2]
        /\ Cardinality({k \in 1..Len(frameRows) : frameRows[k].type = "DISTANCE MARK"})
              = Len(distList)

\* C27: every distance tick lies between 0 and Xmax.
C27_TicksInsideFrame ==
    gridpc # "frame" =>
        \A k \in 1..Len(distList) :
            /\ distList[k] >= 0
            /\ distList[k] * UnitLen(xUnits) <= Xmax * xDen

\* C28: the top of the frame is computed for every Ymax, also for a Ymax on
\* a multiple of the elevation interval.
C28_TopAlwaysComputed ==
    gridpc # "frame" => gridpc = "done"

C30_FastPathCompletes ==
    (hasZ /\ hasM) =>
        \A i \in DOMAIN errors :
            ~(errors[i][3] = "NameError" /\ errors[i][1] # "017")

\* C29: with custom inputs the working copies of the borehole and lithology
\* tables are there for as long as a line is left to process.
C29_WorkingCopiesKept ==
    (custom /\ pc \in {"grid_lines", "grid_clean"}) =>
        {<<"BH_MGS", 0, 0>>, <<"LITH_MGS", 0, 0>>} \subseteq scratch

\* the erased piece that starts where the path starts
OriginPieces(ext) == {r \in ErasedPieces(ext) : r[1] = 1}

\* C21: once the route of a surface is made by the all-steps script, moveLength
\* is the length of the erased piece at the origin of the path alone; pieces in
\* the middle or at the far end add nothing, for bedrock and groundwater alike.
C21_OriginPieceOnly ==
    (confScript = "AllSteps" /\ confpc \in {"zone", "segment", "done"})
        => moveLength = SumLength(OriginPieces(extentCells))

\* C22: for a groundwater surface with a range of years, the buffer covers the
\* boreholes whose date lies in the range and no other, whatever was selected
\* before, and a zone is CONFIDENT exactly when it lies at such boreholes.
C22_BufferFromRangeOnly ==
    (surface = "GWL" /\ filtered /\ confpc \in {"segment", "done"})
        => /\ buffCells = matching
           /\ \A z \in zoneRows :
                 /\ z.conf = "CONFIDENT" <=> z.cells \subseteq matching
                 /\ z.conf = "INFERRED" <=> z.cells \cap matching = {}

\* a surface with a range of years is finished while a borehole outside the
\* range was selected beforehand, on the footprint, and one inside the range
\* lies on the footprint too
C22_Witness ==
    /\ surface = "GWL" /\ filtered /\ confpc = "done" /\ confScript = "AllSteps"
    /\ (bhSel \ matching) \cap extentCells # {}
    /\ matching \cap extentCells # {}
    /\ \E z \in zoneRows : z.conf = "INFERRED" /\ z.cells \cap bhSel # {}

\* C23: the spans handed to placeEvents are in ascending order of FromM, for
\* every surface and in both scripts.
C23_HandedAscending ==
    confpc = "done"
        => \A i \in DOMAIN handed : \A j \in DOMAIN handed :
               i < j => handed[i].from <= handed[j].from

====
